---- MODULE Spec2Model ----
(***************************************************************************)
(* Model of get_endpoints.py: EndpointsReport (login, get_all_endpoints,   *)
(* format_value, process_endpoints_data, generate_report) and main.        *)
(*                                                                         *)
(* JSON values are tagged pairs <<tag, payload>>:                          *)
(*   <<"str", s>>  <<"int", n>>  <<"null", 0>>  <<"bool", b>>              *)
(*   <<"list", <<v1, ..., vn>> >>                                          *)
(*   <<"obj", << <<k1, v1>>, ..., <<kn, vn>> >> >>   (insertion order)     *)
(* and, produced only by the DataFrame constructor,                        *)
(*   <<"float", n>> (the float n.0)   <<"nan", 0>> (float NaN).            *)
(***************************************************************************)
EXTENDS Integers, Sequences, FiniteSets, TLC

VARIABLES
    pc,          \* position of the run (main / generate_report / get_all_endpoints)
    exc,         \* the exception in flight, or NoExc
    origExc,     \* the first failure raised by a lower layer in this run, or NoExc
    out,         \* the lines printed so far (tags)
    reqs,        \* the count= parameter of every data request issued, in order
    loginState,  \* the answer to the login request: "none" | "ok" | "error" | "timeout"
    total,       \* total_count read from the count probe, or -1
    entries,     \* the entries handed to generate_report / process_endpoints_data
    df,          \* the DataFrame: [columns, rows], or NoDf
    wb,          \* the in-memory workbook of the ExcelWriter
    file,        \* the report file on disk
    row,         \* loop variable of the row-colour loop (line 186)
    outputFile,  \* what generate_report returned: "unset" | "None" | "filename"
    value,       \* format_value: the argument
    formatted    \* format_value: the result ("" before the call)

vars == <<pc, exc, origExc, out, reqs, loginState, total, entries, df, wb, file,
          row, outputFile, value, formatted>>

-----------------------------------------------------------------------------
(* Bounds *)

MaxListLen == 2
MaxRows == 2
MaxTotal == 3

-----------------------------------------------------------------------------
(* JSON values *)

JStr(s) == <<"str", s>>
JInt(n) == <<"int", n>>
JNull == <<"null", 0>>
JBool(b) == <<"bool", b>>
JList(items) == <<"list", items>>
JObj(pairs) == <<"obj", pairs>>
JFloat(n) == <<"float", n>>
JNaN == <<"nan", 0>>

IsList(v) == v[1] = "list"
IsDict(v) == v[1] = "obj"

\* 'k' in d
HasKey(d, k) == \E i \in 1..Len(d[2]) : d[2][i][1] = k
\* d[k]
Get(d, k) == d[2][CHOOSE i \in 1..Len(d[2]) : d[2][i][1] = k][2]

SeqsUpTo(S, n) == UNION {[1..m -> S] : m \in 0..n}

RECURSIVE Join(_, _)
\* sep.join(strs)
Join(strs, sep) ==
    IF Len(strs) = 0 THEN ""
    ELSE IF Len(strs) = 1 THEN strs[1]
    ELSE strs[1] \o sep \o Join(Tail(strs), sep)

RECURSIVE PyRepr(_)
\* repr(v) of a Python value decoded from JSON
PyRepr(v) ==
    CASE v[1] = "str" -> "'" \o v[2] \o "'"
      [] v[1] = "int" -> ToString(v[2])
      [] v[1] = "float" -> ToString(v[2]) \o ".0"
      [] v[1] = "nan" -> "nan"
      [] v[1] = "null" -> "None"
      [] v[1] = "bool" -> IF v[2] THEN "True" ELSE "False"
      [] v[1] = "list" ->
            "[" \o Join([i \in 1..Len(v[2]) |-> PyRepr(v[2][i])], ", ") \o "]"
      [] v[1] = "obj" ->
            "{" \o Join([i \in 1..Len(v[2]) |->
                          "'" \o v[2][i][1] \o "': " \o PyRepr(v[2][i][2])], ", ") \o "}"

\* str(v): a string is itself, everything else prints as its repr
PyStr(v) == IF v[1] = "str" THEN v[2] ELSE PyRepr(v)

RECURSIVE JsonDumps(_)
\* json.dumps(v) with the default separators (", " and ": ")
JsonDumps(v) ==
    CASE v[1] = "str" -> "\"" \o v[2] \o "\""
      [] v[1] = "int" -> ToString(v[2])
      [] v[1] = "float" -> ToString(v[2]) \o ".0"
      [] v[1] = "nan" -> "NaN"
      [] v[1] = "null" -> "null"
      [] v[1] = "bool" -> IF v[2] THEN "true" ELSE "false"
      [] v[1] = "list" ->
            "[" \o Join([i \in 1..Len(v[2]) |-> JsonDumps(v[2][i])], ", ") \o "]"
      [] v[1] = "obj" ->
            "{" \o Join([i \in 1..Len(v[2]) |->
                          "\"" \o v[2][i][1] \o "\": " \o JsonDumps(v[2][i][2])], ", ") \o "}"

-----------------------------------------------------------------------------
(* format_value *)

\* a plausible slip: 'value' looked up before 'name' for a list element
FormatItemDictValueFirst(item) ==
    IF HasKey(item, "value") THEN PyStr(Get(item, "value"))
    ELSE IF HasKey(item, "name") THEN PyStr(Get(item, "name"))
    ELSE JsonDumps(item)

\* lines 72-78: a dict that is an element of a list
FormatItemDict(item) ==
    IF HasKey(item, "name") THEN PyStr(Get(item, "name"))
    ELSE IF HasKey(item, "value") THEN PyStr(Get(item, "value"))
    ELSE JsonDumps(item)

\* lines 70-80: one element of a list; a non-dict element goes through str()
FormatItem(item) == IF IsDict(item) THEN FormatItemDict(item) ELSE PyStr(item)

\* lines 84-89: a dict as the cell value
FormatDict(v) ==
    IF HasKey(v, "name") THEN PyStr(Get(v, "name"))
    ELSE IF HasKey(v, "value") THEN PyStr(Get(v, "value"))
    ELSE JsonDumps(v)

format_value(v) ==
    IF IsList(v) THEN Join([i \in 1..Len(v[2]) |-> FormatItem(v[2][i])], ", ")
    ELSE IF IsDict(v) THEN FormatDict(v)
    ELSE PyStr(v)

-----------------------------------------------------------------------------
(* process_endpoints_data *)

\* the keys of one entry, in insertion order
KeysOf(entry) == [i \in 1..Len(entry[2]) |-> entry[2][i][1]]

RECURSIVE AppendNew(_, _)
\* cols extended by the keys not yet in it, in order
AppendNew(cols, keys) ==
    IF Len(keys) = 0 THEN cols
    ELSE IF \E i \in 1..Len(cols) : cols[i] = Head(keys)
         THEN AppendNew(cols, Tail(keys))
         ELSE AppendNew(Append(cols, Head(keys)), Tail(keys))

RECURSIVE UnionKeys(_)
\* line 99, pd.DataFrame(list of dicts): the column labels are the union of
\* the keys, in first-seen order over the entries
UnionKeys(es) ==
    IF Len(es) = 0 THEN <<>>
    ELSE AppendNew(UnionKeys(SubSeq(es, 1, Len(es) - 1)), KeysOf(es[Len(es)]))

\* line 99: the value the DataFrame holds for an entry and a column before
\* dtype inference: a key the entry lacks is filled with NaN
RawCell(entry, k) == IF HasKey(entry, k) THEN Get(entry, k) ELSE JNaN

\* line 99: dtype inference on one column of raw cells.  A column holding a
\* str, list, dict or bool stays an object column, values untouched (None
\* stays None, a filled NaN stays NaN).  A column of ints with a None or NaN
\* becomes float64: n becomes n.0 and None becomes NaN.  A column of only
\* None and NaN with at least one NaN becomes float64 NaN.
Coerce(col) ==
    LET idx == 1..Len(col)
        isObject == \E i \in idx : col[i][1] \in {"str", "list", "obj", "bool"}
        hasHole == \E i \in idx : col[i][1] = "nan"
        hasInt == \E i \in idx : col[i][1] = "int"
        hasNone == \E i \in idx : col[i][1] = "null"
    IN  IF isObject THEN col
        ELSE IF hasHole \/ (hasInt /\ hasNone)
        THEN [i \in idx |-> IF col[i][1] = "int" THEN JFloat(col[i][2])
                             ELSE IF col[i][1] = "null" THEN JNaN ELSE col[i]]
        ELSE col

\* lines 95-105
process_endpoints_data(es) ==
    LET cols == UnionKeys(es)
        column(c) == Coerce([r \in 1..Len(es) |-> RawCell(es[r], cols[c])])
    IN  [columns |-> cols,
         rows |-> [r \in 1..Len(es) |->
                     [c \in 1..Len(cols) |-> format_value(column(c)[r])]]]

NoDf == [columns |-> <<>>, rows |-> <<>>]

-----------------------------------------------------------------------------
(* Exceptions *)

\* cls: the exception class; isReq: isinstance(e, RequestException);
\* response: "absent" (no such attribute), "None" (attribute set to None) or
\* "Response" (a Response object); origin: the step that raised it
Exc(cls, isReq, response, origin) ==
    [cls |-> cls, isReq |-> isReq, response |-> response, origin |-> origin]

NoExc == Exc("none", FALSE, "absent", "none")

\* lines 26, 36, 51: raise_for_status() raises HTTPError(response=self)
HTTPError(origin) == Exc("HTTPError", TRUE, "Response", origin)
\* lines 25, 35, 50: a timeout or refused connection; RequestException's
\* constructor sets self.response = None when no response is passed
TransportError(origin) == Exc("ConnectionError", TRUE, "None", origin)
\* lines 37, 52: response.json() on a malformed body raises either
\* requests.exceptions.JSONDecodeError (a RequestException, response None) or,
\* with an older requests, a plain ValueError
JSONErrors(origin) ==
    {Exc("JSONDecodeError", TRUE, "None", origin), Exc("ValueError", FALSE, "absent", origin)}
\* what evaluating e.response.text raises when e.response is None
AttributeError == Exc("AttributeError", FALSE, "absent", "handler")

\* hasattr(e, 'response')
HasResponseAttr(e) == e.response # "absent"
\* e.response.status_code / e.response.text raises when e.response is None
AccessRaises(e) == e.response = "None"

\* the server's answer to one HTTP call: a status, or no answer at all
Answers == {"ok", "error", "timeout"}

\* raise_for_status ignoring the status
NeverRaises(answer) == FALSE
\* lines 26, 36, 51: raise_for_status() raises on a non-2xx status
RaisesForStatus(answer) == answer = "error"

-----------------------------------------------------------------------------
(* get_all_endpoints *)

\* line 31: count=1
ProbeCount == 1

\* the zero check lost
NeverEmptyCount(t) == FALSE
\* line 42
IsEmptyCount(t) == t = 0

\* the probe's count reused for the second request
SecondCountIsProbe(t) == ProbeCount
\* line 47: count={total_count}
SecondCount(t) == t

-----------------------------------------------------------------------------
(* The workbook and the report file *)

NoWb == [data |-> FALSE, headers |-> FALSE, cells |-> FALSE, widths |-> <<>>,
         frozen |-> FALSE, rowFormats |-> <<>>]

NoFile == [state |-> "none", content |-> NoWb]

\* line 179: padding and cap of a column's width
Padding == 3
MaxWidth == 50

Max(a, b) == IF a >= b THEN a ELSE b
Min(a, b) == IF a <= b THEN a ELSE b

RECURSIVE MaxLenOf(_)
\* df[col].astype(str).apply(len).max()
MaxLenOf(strs) ==
    IF Len(strs) = 0 THEN 0 ELSE Max(Len(strs[1]), MaxLenOf(Tail(strs)))

\* lines 174-179; replace('_', ' ').title() keeps the label's length
ColumnWidth(d, c) ==
    Min(Max(MaxLenOf([r \in 1..Len(d.rows) |-> d.rows[r][c]]), Len(d.columns[c])) + Padding,
        MaxWidth)

\* the parity test inverted
IsOddRow(r) == r % 2 # 0
\* line 187: the branch that sets no format on the row
IsPlainRow(r) == r % 2 = 0

\* lines 187-190: the format set_row gives worksheet row r (row 0 is the header)
RowFormat(r) == IF IsPlainRow(r) THEN "default" ELSE "tint"

\* line 114: not endpoints_data.get('entries')
NoEntries(es) == Len(es) = 0

-----------------------------------------------------------------------------
(* The inputs of a run *)

\* the entries a server answers the second request with
RunObjs ==
    { JObj(<< <<"id", JInt(1)>>,
              <<"tags", JList(<< JObj(<< <<"name", JStr("a")>> >>),
                                 JObj(<< <<"name", JStr("b")>> >>) >>)>> >>),
      JObj(<< <<"id", JInt(2)>>, <<"tags", JList(<<>>)>> >>),
      JObj(<< <<"mac_address", JStr("aa:bb")>> >>) }

RunEntries == SeqsUpTo(RunObjs, MaxRows)

-----------------------------------------------------------------------------
(* main and generate_report *)

Init ==
    /\ pc = "main_login"
    /\ exc = NoExc
    /\ origExc = NoExc
    /\ out = <<>>
    /\ reqs = <<>>
    /\ loginState = "none"
    /\ total = -1
    /\ entries = <<>>
    /\ df = NoDf
    /\ wb = NoWb
    /\ file = NoFile
    /\ row = 0
    /\ outputFile = "unset"
    /\ value = JNull
    /\ formatted = ""

\* lines 214-215 and 17-26: main calls login
Login ==
    /\ pc = "main_login"
    /\ \E answer \in Answers :
        /\ loginState' = answer
        /\ IF answer = "timeout"
           THEN /\ exc' = TransportError("login")
                /\ pc' = "main_except"
           ELSE IF RaisesForStatus(answer)
           THEN /\ exc' = HTTPError("login")
                /\ pc' = "main_except"
           ELSE /\ exc' = NoExc
                /\ pc' = "main_input"
    /\ origExc' = exc'
    /\ out' = Append(out, "Logging in to NDI...")
    /\ UNCHANGED <<reqs, total, entries, df, wb, file, row, outputFile, value, formatted>>

\* lines 218-220 and 109-112: the prompt, then generate_report enters
\* get_all_endpoints; input() raises EOFError on a closed stdin
Input ==
    /\ pc = "main_input"
    /\ \E eof \in BOOLEAN :
        IF eof
        THEN /\ exc' = Exc("EOFError", FALSE, "absent", "input")
             /\ origExc' = exc'
             /\ pc' = "main_except"
             /\ out' = Append(out, "Generating report...")
        ELSE /\ UNCHANGED <<exc, origExc>>
             /\ pc' = "gae_probe"
             /\ out' = out \o <<"Generating report...", "Fetching all endpoints data...">>
    /\ UNCHANGED <<reqs, loginState, total, entries, df, wb, file, row, outputFile,
                   value, formatted>>

\* where a failure raised in get_all_endpoints' try block lands: the except
\* clause of line 58 takes RequestExceptions only
FetchRaise(e) ==
    /\ exc' = e
    /\ origExc' = e
    /\ pc' = IF e.isReq THEN "gae_except" ELSE "gen_except"

\* lines 31-44: the count probe
Probe ==
    /\ pc = "gae_probe"
    /\ reqs' = Append(reqs, ProbeCount)
    /\ \E answer \in Answers :
        \/ /\ answer = "timeout"
           /\ FetchRaise(TransportError("probe"))
           /\ out' = Append(out, "Getting total count...")
           /\ UNCHANGED <<total, entries>>
        \/ /\ answer # "timeout"
           /\ RaisesForStatus(answer)
           /\ FetchRaise(HTTPError("probe"))
           /\ out' = Append(out, "Getting total count...")
           /\ UNCHANGED <<total, entries>>
        \/ /\ answer # "timeout"
           /\ ~RaisesForStatus(answer)
           /\ \E e \in JSONErrors("probe") : FetchRaise(e)
           /\ out' = Append(out, "Getting total count...")
           /\ UNCHANGED <<total, entries>>
        \/ /\ answer # "timeout"
           /\ ~RaisesForStatus(answer)
           /\ \E t \in 0..MaxTotal :
                /\ total' = t
                /\ IF IsEmptyCount(t)
                   THEN /\ pc' = "gen_check"
                        /\ out' = out \o <<"Getting total count...",
                                           "Total endpoints available",
                                           "No endpoints found for the given site name">>
                   ELSE /\ pc' = "gae_fetch"
                        /\ out' = out \o <<"Getting total count...",
                                           "Total endpoints available",
                                           "Fetching all endpoints with URL">>
           /\ entries' = <<>>
           /\ UNCHANGED <<exc, origExc>>
    /\ UNCHANGED <<loginState, df, wb, file, row, outputFile, value, formatted>>

\* lines 47-56: the request for all records
Fetch ==
    /\ pc = "gae_fetch"
    /\ reqs' = Append(reqs, SecondCount(total))
    /\ \E answer \in Answers :
        \/ /\ answer = "timeout"
           /\ FetchRaise(TransportError("fetch"))
           /\ UNCHANGED <<entries, out>>
        \/ /\ answer # "timeout"
           /\ RaisesForStatus(answer)
           /\ FetchRaise(HTTPError("fetch"))
           /\ UNCHANGED <<entries, out>>
        \/ /\ answer # "timeout"
           /\ ~RaisesForStatus(answer)
           /\ \E e \in JSONErrors("fetch") : FetchRaise(e)
           /\ UNCHANGED <<entries, out>>
        \/ /\ answer # "timeout"
           /\ ~RaisesForStatus(answer)
           /\ \E es \in RunEntries : entries' = es
           /\ pc' = "gen_check"
           /\ out' = Append(out, "Fetched endpoints")
           /\ UNCHANGED <<exc, origExc>>
    /\ UNCHANGED <<loginState, total, df, wb, file, row, outputFile, value, formatted>>

\* lines 58-62: the except clause of get_all_endpoints
FetchExcept ==
    /\ pc = "gae_except"
    /\ pc' = "gen_except"
    /\ IF HasResponseAttr(exc)
       THEN IF AccessRaises(exc)
            THEN \* line 60: None.status_code
                 /\ exc' = AttributeError
                 /\ out' = Append(out, "Error details:")
            ELSE /\ exc' = exc
                 /\ out' = out \o <<"Error details:", "Status code: status_code",
                                    "Response content: text">>
       ELSE /\ exc' = exc
            /\ out' = out \o <<"Error details:", "Status code: N/A",
                               "Response content: N/A">>
    /\ UNCHANGED <<origExc, reqs, loginState, total, entries, df, wb, file, row,
                   outputFile, value, formatted>>

-----------------------------------------------------------------------------
(* generate_report after get_all_endpoints returned *)

\* the with statement of line 128 left by an exception: __exit__ closes the
\* writer, which saves the workbook as it stands, and the exception goes on
\* to the except clause of line 196
WithRaise(e) ==
    /\ file' = [state |-> "saved", content |-> wb]
    /\ exc' = e
    /\ origExc' = e
    /\ pc' = "gen_except"

\* lines 114-119
CheckEntries ==
    /\ pc = "gen_check"
    /\ IF NoEntries(entries)
       THEN /\ out' = Append(out, "No data to process")
            /\ outputFile' = "None"
            /\ pc' = "main_after"
       ELSE /\ out' = Append(out, "Processing data...")
            /\ outputFile' = outputFile
            /\ pc' = "gen_process"
    /\ UNCHANGED <<exc, origExc, reqs, loginState, total, entries, df, wb, file, row,
                   value, formatted>>

\* line 120
Process ==
    /\ pc = "gen_process"
    /\ df' = process_endpoints_data(entries)
    /\ pc' = "gen_open"
    /\ UNCHANGED <<exc, origExc, out, reqs, loginState, total, entries, wb, file, row,
                   outputFile, value, formatted>>

\* lines 123-128: the ExcelWriter is constructed; the file cannot always be
\* created (permissions, missing directory)
OpenWriter ==
    /\ pc = "gen_open"
    /\ out' = Append(out, "Generating Excel report...")
    /\ \E ok \in BOOLEAN :
        IF ok
        THEN /\ file' = [state |-> "open", content |-> NoWb]
             /\ pc' = "gen_to_excel"
             /\ UNCHANGED <<exc, origExc>>
        ELSE /\ file' = file
             /\ exc' = Exc("OSError", FALSE, "absent", "write")
             /\ origExc' = exc'
             /\ pc' = "gen_except"
    /\ UNCHANGED <<reqs, loginState, total, entries, df, wb, row, outputFile, value,
                   formatted>>

\* line 129: df.to_excel writes the cells, or raises ValueError when the
\* frame does not fit a sheet
ToExcel ==
    /\ pc = "gen_to_excel"
    /\ \E ok \in BOOLEAN :
        IF ok
        THEN /\ wb' = [wb EXCEPT !.data = TRUE]
             /\ pc' = "gen_headers"
             /\ UNCHANGED <<exc, origExc, file>>
        ELSE /\ WithRaise(Exc("ValueError", FALSE, "absent", "write"))
             /\ wb' = wb
    /\ UNCHANGED <<out, reqs, loginState, total, entries, df, row, outputFile, value,
                   formatted>>

\* lines 158-164
WriteHeaders ==
    /\ pc = "gen_headers"
    /\ wb' = [wb EXCEPT !.headers = TRUE]
    /\ pc' = "gen_cells"
    /\ UNCHANGED <<exc, origExc, out, reqs, loginState, total, entries, df, file, row,
                   outputFile, value, formatted>>

\* lines 167-169
WriteCells ==
    /\ pc = "gen_cells"
    /\ wb' = [wb EXCEPT !.cells = TRUE]
    /\ pc' = "gen_widths"
    /\ UNCHANGED <<exc, origExc, out, reqs, loginState, total, entries, df, file, row,
                   outputFile, value, formatted>>

\* lines 172-183: the column widths, then the frozen header row
SetWidths ==
    /\ pc = "gen_widths"
    /\ wb' = [wb EXCEPT !.widths = [c \in 1..Len(df.columns) |-> ColumnWidth(df, c)],
                        !.frozen = TRUE]
    /\ row' = 1
    /\ pc' = "gen_rows"
    /\ UNCHANGED <<exc, origExc, out, reqs, loginState, total, entries, df, file,
                   outputFile, value, formatted>>

\* lines 186-190: one turn of the row-colour loop
ColourRow ==
    /\ pc = "gen_rows"
    /\ row <= Len(df.rows)
    /\ wb' = [wb EXCEPT !.rowFormats = Append(@, RowFormat(row))]
    /\ row' = row + 1
    /\ UNCHANGED <<pc, exc, origExc, out, reqs, loginState, total, entries, df, file,
                   outputFile, value, formatted>>

\* lines 190-194: the loop is over, the with block is left and the writer
\* closed; saving can fail (disk full, file locked), leaving no file or a
\* truncated one
CloseWriter ==
    /\ pc = "gen_rows"
    /\ row > Len(df.rows)
    /\ \E result \in {"saved", "none", "truncated"} :
        /\ file' = [state |-> result, content |-> IF result = "saved" THEN wb ELSE NoWb]
        /\ IF result = "saved"
           THEN /\ out' = out \o <<"Report has been generated", "Total endpoints processed">>
                /\ outputFile' = "filename"
                /\ pc' = "main_after"
                /\ UNCHANGED <<exc, origExc>>
           ELSE /\ exc' = Exc("OSError", FALSE, "absent", "write")
                /\ origExc' = exc'
                /\ pc' = "gen_except"
                /\ UNCHANGED <<out, outputFile>>
    /\ UNCHANGED <<reqs, loginState, total, entries, df, wb, row, value, formatted>>

\* lines 196-200: the except clause of generate_report
ReportExcept ==
    /\ pc = "gen_except"
    /\ IF HasResponseAttr(exc) /\ AccessRaises(exc)
       THEN \* line 199: None.text, raised inside the handler
            /\ exc' = AttributeError
            /\ out' = Append(out, "Error occurred while generating report")
            /\ outputFile' = outputFile
            /\ pc' = "main_except"
       ELSE /\ exc' = NoExc
            /\ out' = IF HasResponseAttr(exc)
                      THEN out \o <<"Error occurred while generating report",
                                    "Response content: text">>
                      ELSE Append(out, "Error occurred while generating report")
            /\ outputFile' = "None"
            /\ pc' = "main_after"
    /\ UNCHANGED <<origExc, reqs, loginState, total, entries, df, wb, file, row, value,
                   formatted>>

\* lines 222-223
MainAfter ==
    /\ pc = "main_after"
    /\ out' = IF outputFile = "filename"
              THEN Append(out, "Script completed successfully!") ELSE out
    /\ pc' = "done"
    /\ UNCHANGED <<exc, origExc, reqs, loginState, total, entries, df, wb, file, row,
                   outputFile, value, formatted>>

\* lines 225-228: the except clause of main; what it raises is caught by
\* nothing
MainExcept ==
    /\ pc = "main_except"
    /\ IF HasResponseAttr(exc) /\ AccessRaises(exc)
       THEN /\ exc' = AttributeError
            /\ out' = Append(out, "Error:")
            /\ pc' = "crashed"
       ELSE /\ exc' = NoExc
            /\ out' = IF HasResponseAttr(exc)
                      THEN out \o <<"Error:", "Response content: text">>
                      ELSE Append(out, "Error:")
            /\ pc' = "done"
    /\ UNCHANGED <<origExc, reqs, loginState, total, entries, df, wb, file, row,
                   outputFile, value, formatted>>

Next ==
    \/ Login
    \/ Input
    \/ Probe
    \/ Fetch
    \/ FetchExcept
    \/ CheckEntries
    \/ Process
    \/ OpenWriter
    \/ ToExcel
    \/ WriteHeaders
    \/ WriteCells
    \/ SetWidths
    \/ ColourRow
    \/ CloseWriter
    \/ ReportExcept
    \/ MainAfter
    \/ MainExcept

Spec == Init /\ [][Next]_vars

-----------------------------------------------------------------------------
(* format_value applied to bounded JSON values *)

Scalars == {JStr("a"), JInt(1), JNull, JBool(TRUE)}

\* the key orders of the objects tried
KeySeqs ==
    { <<>>, <<"name">>, <<"value">>, <<"id">>, <<"name", "value">>,
      <<"value", "name">>, <<"id", "name">>, <<"value", "id">> }

ObjVals == {JStr("a"), JInt(1)}

Objs == {JObj([i \in 1..Len(ks) |-> <<ks[i], vs[i]>>]) :
            <<ks, vs>> \in {p \in KeySeqs \X SeqsUpTo(ObjVals, 2) : Len(p[1]) = Len(p[2])}}

InnerLists ==
    { JList(<<>>), JList(<<JStr("a")>>), JList(<<JStr("a"), JInt(1)>>),
      JList(<< JObj(<< <<"name", JStr("a")>> >>) >>) }

Elems == Scalars \cup Objs \cup InnerLists

FmtValues == Scalars \cup Objs \cup {JList(items) : items \in SeqsUpTo(Elems, MaxListLen)}

InitFmt ==
    /\ pc = "fmt"
    /\ value \in FmtValues
    /\ formatted = ""
    /\ exc = NoExc
    /\ origExc = NoExc
    /\ out = <<>>
    /\ reqs = <<>>
    /\ loginState = "none"
    /\ total = -1
    /\ entries = <<>>
    /\ df = NoDf
    /\ wb = NoWb
    /\ file = NoFile
    /\ row = 0
    /\ outputFile = "unset"

\* lines 64-91: one call of format_value
Format ==
    /\ pc = "fmt"
    /\ formatted' = format_value(value)
    /\ pc' = "fmt_done"
    /\ UNCHANGED <<exc, origExc, out, reqs, loginState, total, entries, df, wb, file,
                   row, outputFile, value>>

NextFmt == Format

SpecFmt == InitFmt /\ [][NextFmt]_vars

-----------------------------------------------------------------------------
(* process_endpoints_data applied to bounded collections *)

TblKeySeqs == { <<>>, <<"a">>, <<"b">>, <<"a", "b">>, <<"b", "a">> }

TblVals == {JStr("x"), JInt(1), JNull}

TblObjs == {JObj([i \in 1..Len(ks) |-> <<ks[i], vs[i]>>]) :
               <<ks, vs>> \in {p \in TblKeySeqs \X SeqsUpTo(TblVals, 2) : Len(p[1]) = Len(p[2])}}

TblEntries == SeqsUpTo(TblObjs, MaxRows)

InitTbl ==
    /\ pc = "tbl"
    /\ entries \in TblEntries
    /\ df = NoDf
    /\ value = JNull
    /\ formatted = ""
    /\ exc = NoExc
    /\ origExc = NoExc
    /\ out = <<>>
    /\ reqs = <<>>
    /\ loginState = "none"
    /\ total = -1
    /\ wb = NoWb
    /\ file = NoFile
    /\ row = 0
    /\ outputFile = "unset"

\* lines 93-105: one call of process_endpoints_data
BuildTable ==
    /\ pc = "tbl"
    /\ df' = process_endpoints_data(entries)
    /\ pc' = "tbl_done"
    /\ UNCHANGED <<exc, origExc, out, reqs, loginState, total, entries, wb, file, row,
                   outputFile, value, formatted>>

NextTbl == BuildTable

SpecTbl == InitTbl /\ [][NextTbl]_vars

-----------------------------------------------------------------------------
(* Properties *)

Printed(line) == \E i \in 1..Len(out) : out[i] = line

Terminal == pc \in {"done", "crashed"}

ErrorLogged == Printed("Error:") \/ Printed("Error occurred while generating report")

\* the report on disk holds everything generate_report emits for the frame
Complete(c) ==
    /\ c.data /\ c.headers /\ c.cells /\ c.frozen
    /\ Len(c.widths) = Len(df.columns)
    /\ Len(c.rowFormats) = Len(df.rows)

\* C1: every failure raised by a lower layer is caught and logged and the run
\* ends in a failed outcome; no run ends with an unhandled fault, in
\* particular not one raised inside an error handler.
C1_EveryFailureCaught ==
    /\ pc # "crashed"
    /\ (pc = "done" /\ origExc # NoExc) =>
           ErrorLogged /\ outputFile # "filename" /\ exc = NoExc

\* C2: when a data request of get_all_endpoints fails (a RequestException,
\* the class the except clause of line 58 takes), the failure that
\* reaches generate_report is the failure the request raised, and the error
\* report shows the response's status and body when there is a response and
\* the N/A placeholder when there is none.
C2_RequestFailureUnmodified ==
    (pc = "gen_except" /\ origExc.isReq /\ origExc.origin \in {"probe", "fetch"}) =>
        /\ exc = origExc
        /\ IF origExc.response = "Response"
           THEN Printed("Status code: status_code") /\ Printed("Response content: text")
           ELSE Printed("Status code: N/A") /\ Printed("Response content: N/A")

\* C3: when the probe reports totalItemsCount = 0, get_all_endpoints returns
\* the empty collection without a second request, and the run ends with the
\* no-data message, no report file and no pass through an error path.
C3_ZeroCountIsNoData ==
    total = 0 =>
        /\ reqs = <<1>>
        /\ entries = <<>>
        /\ pc \in {"gen_check", "main_after", "done"}
        /\ file.state = "none"
        /\ exc = NoExc /\ origExc = NoExc /\ ~ErrorLogged
        /\ pc \in {"main_after", "done"} =>
               Printed("No data to process") /\ outputFile = "None"
        /\ ~Printed("Script completed successfully!")

C3_Witness == pc = "done" /\ total = 0 /\ Printed("No data to process")

\* C4: get_all_endpoints issues exactly one probe with count=1, then, only
\* when the probed total is non-zero, exactly one request with count equal to
\* that total; a failed request is followed by no other request; a run never
\* issues more than two data requests.
C4_TwoPhaseNoRetry ==
    /\ Len(reqs) <= 2
    /\ pc \in {"main_login", "main_input", "gae_probe"} => reqs = <<>>
    /\ pc \in {"gae_fetch", "gae_except", "gen_check", "gen_process"} => reqs # <<>>
    /\ reqs # <<>> => reqs[1] = 1
    /\ Len(reqs) = 2 => total > 0 /\ reqs[2] = total
    /\ total > 0 => Len(reqs) = (IF pc = "gae_fetch" THEN 1 ELSE 2)
    /\ total = 0 => Len(reqs) = 1
    /\ origExc.origin = "probe" => reqs = <<1>>
    /\ origExc.origin = "fetch" => Len(reqs) = 2

C4_Witness == pc = "done" /\ Len(reqs) = 2 /\ total > 1 /\ origExc.origin = "fetch"

\* C5: the steps occur in the order login, get_all_endpoints, table build,
\* report write: no data request without a login that succeeded, no write
\* before a non-empty collection was fetched and the table built, a filename
\* only after the write completed, and after a failed login no request and
\* no file.
C5_StepOrder ==
    /\ reqs # <<>> => loginState = "ok"
    /\ file.state # "none" =>
           /\ Len(reqs) = 2
           /\ Len(entries) > 0
           /\ df = process_endpoints_data(entries)
    /\ outputFile = "filename" => file.state = "saved" /\ Complete(file.content)
    /\ loginState \in {"error", "timeout"} =>
           reqs = <<>> /\ file.state = "none" /\ outputFile = "unset"

C5_Witness == pc = "done" /\ outputFile = "filename" /\ Len(entries) = MaxRows

\* C6: in every terminal state either no report file exists or a complete
\* report exists; a failure raised while the report is written leaves no
\* incomplete file.
C6_NoPartialFile ==
    Terminal => file.state = "none" \/ (file.state = "saved" /\ Complete(file.content))

\* the object rule: name, else value, else the JSON text
NameFirst(d) ==
    IF HasKey(d, "name") THEN PyStr(Get(d, "name"))
    ELSE IF HasKey(d, "value") THEN PyStr(Get(d, "value"))
    ELSE JsonDumps(d)

\* C7: an object with both name and value formats as the string form of its
\* name, as a cell value and as a list element alike; value is used only
\* when name is absent, the JSON text only when both are absent.
C7_NamePrecedence ==
    pc = "fmt_done" =>
        /\ IsDict(value) => formatted = NameFirst(value)
        /\ (IsList(value) /\ \A i \in 1..Len(value[2]) : IsDict(value[2][i])) =>
               formatted = Join([i \in 1..Len(value[2]) |-> NameFirst(value[2][i])], ", ")

C7_Witness ==
    /\ pc = "fmt_done"
    /\ IsList(value) /\ Len(value[2]) = 2
    /\ \A i \in 1..2 : /\ IsDict(value[2][i])
                       /\ HasKey(value[2][i], "name") /\ HasKey(value[2][i], "value")
                       /\ Get(value[2][i], "name") # Get(value[2][i], "value")
    /\ Get(value[2][1], "name") = JStr("a")
    /\ formatted = "a, 1"

RECURSIVE ByRules(_)
\* the formatting rules applied to the elements of a list as to a cell value
ByRules(v) ==
    IF IsList(v) THEN Join([i \in 1..Len(v[2]) |-> ByRules(v[2][i])], ", ")
    ELSE IF IsDict(v) THEN NameFirst(v)
    ELSE PyStr(v)

\* C8: a list formats as its elements, each formatted by the rules of a cell
\* value (an element that is a list by the list rule), joined with ", ".
C8_ListElementsBySameRules ==
    (pc = "fmt_done" /\ IsList(value)) => formatted = ByRules(value)

\* the row and position at which key k is first seen
FirstSeen(k) ==
    LET r == CHOOSE r \in 1..Len(entries) :
                 /\ HasKey(entries[r], k)
                 /\ \A q \in 1..(r - 1) : ~HasKey(entries[q], k)
    IN  <<r, CHOOSE i \in 1..Len(entries[r][2]) : entries[r][2][i][1] = k>>

Before(a, b) == a[1] < b[1] \/ (a[1] = b[1] /\ a[2] < b[2])

\* C9: the table has one row per entry, its columns are the union of the
\* keys in first-occurrence order, every row has one cell per column, and
\* the cell of a key the entry lacks holds the rendering of a null field.
C9_RectangularTable ==
    pc = "tbl_done" =>
        /\ Len(df.rows) = Len(entries)
        /\ {df.columns[c] : c \in 1..Len(df.columns)} =
               UNION {{entries[r][2][i][1] : i \in 1..Len(entries[r][2])} : r \in 1..Len(entries)}
        /\ \A c, d \in 1..Len(df.columns) :
               c < d => Before(FirstSeen(df.columns[c]), FirstSeen(df.columns[d]))
        /\ \A r \in 1..Len(df.rows) :
               /\ Len(df.rows[r]) = Len(df.columns)
               /\ \A c \in 1..Len(df.columns) :
                      ~HasKey(entries[r], df.columns[c]) =>
                          df.rows[r][c] = format_value(JNull)

\* C10 as stated: in a written report the even data rows, counted from the
\* first data row, are tinted and the odd ones are not.
C10_EvenRowsTinted ==
    outputFile = "filename" =>
        /\ Len(file.content.rowFormats) = Len(entries)
        /\ \A k \in 1..Len(entries) :
               (file.content.rowFormats[k] = "tint") <=> (k % 2 = 0)

\* C10 amended: in a written report the odd data rows, counted from the
\* first data row, are tinted and the even ones are not.
C10_OddRowsTinted ==
    outputFile = "filename" =>
        /\ Len(file.content.rowFormats) = Len(entries)
        /\ \A k \in 1..Len(entries) :
               (file.content.rowFormats[k] = "tint") <=> (k % 2 = 1)

C10_Witness ==
    /\ pc = "done" /\ outputFile = "filename" /\ Len(entries) = MaxRows
    /\ file.content.rowFormats[1] = "tint"

====
